---- MODULE Spec2Model ----
(***************************************************************************)
(* Treasury tracker: payment schedule generation and portfolio             *)
(* aggregation (routers/investments.py), with the request validation of    *)
(* app/schemas.py and the tables of app/models.py.                         *)
(* The sessions and access tokens of auth.py and routers/auth.py are       *)
(* modelled for the requests of the auth router.                           *)
(*                                                                         *)
(* Units.  Money is an integer number of cents (columns Numeric(15,2)),    *)
(* a coupon rate an integer number of 1/10000 (column Numeric(5,4)).  The  *)
(* product face_value * annual_coupon_rate / 2, not yet rounded, is held   *)
(* in half-millionths of the currency unit ("fine" units): one cent is     *)
(* FinePerCent fine units.  A date is the integer yyyymmdd, so that the    *)
(* order of dates is the order of integers.  An optional value is <<>>     *)
(* (None) or <<v>>.                                                        *)
(***************************************************************************)
EXTENDS Integers, Sequences, FiniteSets, TLC

VARIABLES
    investments,          \* rows of table investments (committed)
    payment_schedules,    \* rows of table payment_schedules (committed)
    next_investment_id,   \* the next fresh Investment.id (uuid4)
    next_payment_id,      \* the next fresh PaymentSchedule.id (uuid4)
    updates,              \* number of PUT requests applied so far
    response,             \* outcome of the last request
    transaction,          \* the open transaction of a schedule generation
    users,                \* rows of table users, by User.id
    user_sessions,        \* rows of table user_sessions
    tokens,               \* the access tokens that login has handed out
    next_reset_token,     \* the next fresh password reset token
    now                   \* datetime.utcnow(), in units of the token lifetime

\* The state of authentication (auth.py, routers/auth.py)
authvars == <<users, user_sessions, tokens, next_reset_token, now>>

vars == <<investments, payment_schedules, next_investment_id, next_payment_id,
          updates, response, transaction, authvars>>

----------------------------------------------------------------------------
(* Optional values *)

None == <<>>

Some(v) == <<v>>

IsNone(o) == o = <<>>

Get(o) == o[1]

\* The outcome of a request: the handler, how it ended, the arguments the
\* properties refer to, and the body of the answer.
Reply(op, status, args, body) ==
    [op |-> op, status |-> status, args |-> args, body |-> body]

----------------------------------------------------------------------------
(* Calendar dates (datetime.date) and dateutil's relativedelta(months=6) *)

MkDate(y, m, d) == y * 10000 + m * 100 + d

YearOf(dt) == dt \div 10000

MonthOf(dt) == (dt \div 100) % 100

DayOf(dt) == dt % 100

IsLeap(y) == (y % 4 = 0) /\ ((y % 100 # 0) \/ (y % 400 = 0))

DaysInMonth(y, m) ==
    IF m = 2 THEN (IF IsLeap(y) THEN 29 ELSE 28)
    ELSE IF m \in {4, 6, 9, 11} THEN 30 ELSE 31

Min(a, b) == IF a <= b THEN a ELSE b

\* date + relativedelta(months=n), 1 <= n <= 12: the month advances, the year
\* carries, and the day is clamped to the last day of the target month.
AddMonths(dt, n) ==
    LET m0 == MonthOf(dt) + n
        y  == IF m0 > 12 THEN YearOf(dt) + 1 ELSE YearOf(dt)
        m  == IF m0 > 12 THEN m0 - 12 ELSE m0
    IN  MkDate(y, m, Min(DaysInMonth(y, m), DayOf(dt)))

CouponMonths == 6

\* date + timedelta(days=1)
NextDay(dt) ==
    IF DayOf(dt) < DaysInMonth(YearOf(dt), MonthOf(dt)) THEN dt + 1
    ELSE IF MonthOf(dt) < 12 THEN MkDate(YearOf(dt), MonthOf(dt) + 1, 1)
    ELSE MkDate(YearOf(dt) + 1, 1, 1)

RECURSIVE AddDays(_, _)
\* date + timedelta(days=n), n >= 0
AddDays(dt, n) == IF n = 0 THEN dt ELSE AddDays(NextDay(dt), n - 1)

----------------------------------------------------------------------------
(* Enumerations of app/models.py *)

TREASURY_NOTE == "treasury_note"

TREASURY_BILL == "treasury_bill"

InvestmentType == {TREASURY_NOTE, TREASURY_BILL}

InvestmentStatus == {"active", "matured", "sold", "cancelled"}

PaymentType == {"coupon", "principal", "final_payment"}

PaymentStatus == {"pending", "due", "paid", "overdue"}


NULL == "null"

----------------------------------------------------------------------------
(* Money: Numeric(15,2) columns and the unrounded coupon product *)

FinePerCent == 20000

ToFine(cents) == cents * FinePerCent

\* A value written to a Numeric(15,2) column is rounded to cents by the
\* database (PostgreSQL, the configured DATABASE_URL: half away from zero).
Numeric_15_2(fine) == (fine + (FinePerCent \div 2)) \div FinePerCent

----------------------------------------------------------------------------
(* Request validation: InvestmentCreate (pydantic, fields in declaration   *)
(* order; a validator sees in `values` only the fields validated before    *)
(* it, and a default that the request does not set is not validated)       *)

FieldOrder ==
    << "investment_type", "description", "face_value", "purchase_price",
       "annual_coupon_rate", "issue_date", "purchase_date", "maturity_date" >>

RateMax == 10000

\* Field(..., gt=0) of face_value and purchase_price
validate_gt0(v) == IF v > 0 THEN "ok" ELSE "ValueError"

\* @validator('annual_coupon_rate'); v is None or Some(rate)
validate_coupon_rate(v, values) ==
    IF "investment_type" \in DOMAIN values
    THEN IF values["investment_type"] = TREASURY_NOTE
         THEN (IF IsNone(v) THEN "TypeError"          \* None <= 0
               ELSE IF Get(v) <= 0 THEN "ValueError" ELSE "ok")
         ELSE IF values["investment_type"] = TREASURY_BILL /\ v # Some(0)
              THEN "ValueError"
              ELSE "ok"
    ELSE "ok"

\* Field(0.0000, ge=0, le=1) then the validator; neither runs on the default
validate_annual_coupon_rate(body, values) ==
    IF "annual_coupon_rate" \in body.unset THEN "ok"
    ELSE IF ~IsNone(body.annual_coupon_rate)
            /\ ~(0 <= Get(body.annual_coupon_rate)
                 /\ Get(body.annual_coupon_rate) <= RateMax)
         THEN "ValueError"
         ELSE validate_coupon_rate(body.annual_coupon_rate, values)

\* @validator('issue_date'); v is None or Some(date)
validate_issue_date(v, values) ==
    IF ~IsNone(v) /\ "purchase_date" \in DOMAIN values
       /\ Get(v) > values["purchase_date"]
    THEN "ValueError" ELSE "ok"

\* @validator('maturity_date')
validate_maturity_date(v, values) ==
    IF "purchase_date" \in DOMAIN values /\ v <= values["purchase_date"]
    THEN "ValueError" ELSE "ok"

ValidateField(f, body, values) ==
    CASE f = "face_value"         -> validate_gt0(body.face_value)
      [] f = "purchase_price"     -> validate_gt0(body.purchase_price)
      [] f = "annual_coupon_rate" -> validate_annual_coupon_rate(body, values)
      [] f = "issue_date"         -> validate_issue_date(body.issue_date, values)
      [] f = "maturity_date"      -> validate_maturity_date(body.maturity_date, values)
      [] OTHER                    -> "ok"

RECURSIVE ValidateFrom(_, _, _, _)
\* Fields are validated in order; a ValueError is collected (the field does
\* not enter `values`), any other exception propagates at once.
ValidateFrom(body, i, values, failed) ==
    IF i > Len(FieldOrder)
    THEN (IF failed THEN "ValidationError" ELSE "ok")
    ELSE LET f == FieldOrder[i]
             r == ValidateField(f, body, values)
         IN  CASE r = "TypeError"  -> "TypeError"
               [] r = "ValueError" -> ValidateFrom(body, i + 1, values, TRUE)
               [] OTHER            ->
                    ValidateFrom(body, i + 1, values @@ (f :> body[f]), failed)

\* InvestmentCreate(**request): "ok", "ValidationError" (422) or "TypeError"
InvestmentCreate(body) == ValidateFrom(body, 1, << >>, FALSE)

\* investment_data.dict(): an unset annual_coupon_rate carries its default
DefaultCouponRate == Some(0)

BodyDict(body) ==
    IF "annual_coupon_rate" \in body.unset
    THEN [body EXCEPT !.annual_coupon_rate = DefaultCouponRate]
    ELSE body


\* InvestmentResponse (response_model) inherits the fields and validators of
\* InvestmentBase and is built from the attributes of the row, all of them set.
\* Its status is an InvestmentStatus, not optional.
InvestmentResponse(row) ==
    IF InvestmentCreate(row @@ [unset |-> {}]) = "ok"
       /\ row.status \in InvestmentStatus
    THEN "ok" ELSE "ResponseValidationError"

----------------------------------------------------------------------------
(* generate_payment_schedule *)

\* coupon_amount = (face_value * annual_coupon_rate) / 2, in fine units
CouponAmount(investment) ==
    investment.face_value * Get(investment.annual_coupon_rate)

\* The mutation of C1: the event on the maturity date pays the coupon alone.
NotePayment_CouponOnly(investment, current_date, n) ==
    [payment_date   |-> current_date,
     payment_amount |-> CouponAmount(investment),
     payment_type   |-> IF current_date = investment.maturity_date
                        THEN "final_payment" ELSE "coupon",
     description    |-> <<"Semi-annual coupon payment #", n>>]

\* The PaymentSchedule object of one pass of the loop (lines 40-57)
NotePayment(investment, current_date, n) ==
    IF current_date = investment.maturity_date
    THEN [payment_date   |-> current_date,
          payment_amount |-> CouponAmount(investment)
                             + ToFine(investment.face_value),
          payment_type   |-> "final_payment",
          description    |-> <<"Final coupon payment + Principal repayment", 0>>]
    ELSE [payment_date   |-> current_date,
          payment_amount |-> CouponAmount(investment),
          payment_type   |-> "coupon",
          description    |-> <<"Semi-annual coupon payment #", n>>]

RECURSIVE NoteLoop(_, _, _)
\* The while loop of the note branch, entered with current_date and the number
\* of payments emitted so far: the PaymentSchedule objects handed to db.add.
NoteLoop(investment, current_date, payment_count) ==
    IF current_date <= investment.maturity_date
    THEN <<NotePayment(investment, current_date, payment_count + 1)>>
         \o NoteLoop(investment, AddMonths(current_date, CouponMonths),
                     payment_count + 1)
    ELSE << >>

\* The mutation of C3: the bill is paid at its purchase date.
BillPayment_AtPurchase(investment) ==
    << [payment_date   |-> investment.purchase_date,
        payment_amount |-> ToFine(investment.face_value),
        payment_type   |-> "principal",
        description    |-> <<"Treasury bill maturity payment", 0>>] >>

\* The PaymentSchedule object of the bill branch (lines 66-72)
BillPayment(investment) ==
    << [payment_date   |-> investment.maturity_date,
        payment_amount |-> ToFine(investment.face_value),
        payment_type   |-> "principal",
        description    |-> <<"Treasury bill maturity payment", 0>>] >>

\* The rows db.commit() inserts for the added objects: fresh ids, the column
\* defaults (payment_status pending, no actual payment) and the amount at the
\* precision of its column.
InsertPayments(investment, added, pid) ==
    { [id                    |-> pid + k - 1,
       investment_id         |-> investment.id,
       payment_date          |-> added[k].payment_date,
       payment_amount        |-> Numeric_15_2(added[k].payment_amount),
       payment_type          |-> added[k].payment_type,
       payment_status        |-> "pending",
       description           |-> added[k].description,
       actual_payment_date   |-> None,
       actual_payment_amount |-> None] : k \in 1..Len(added) }

\* The mutation of C6: the existing schedule is not cleared.
ClearExisting_Nothing(ps, investment) == ps

\* Line 23: the rows left by the DELETE of the investment's payment schedules
ClearExisting(ps, investment) ==
    {p \in ps : p.investment_id # investment.id}

\* Decimal * None (line 27) and None + relativedelta (line 35) raise TypeError
NoteRaises(investment) ==
    IsNone(investment.annual_coupon_rate) \/ IsNone(investment.issue_date)

\* generate_payment_schedule(db, investment) on the table contents ps: the
\* outcome, the table contents it leaves and the next fresh payment id.  The
\* DELETE and the inserts belong to one transaction, committed at the end; an
\* exception leaves it uncommitted and the session's close rolls it back.
generate_payment_schedule(ps, investment, pid) ==
    LET kept == ClearExisting(ps, investment)
    IN  IF investment.investment_type = TREASURY_NOTE
        THEN IF NoteRaises(investment)
             THEN [status |-> "TypeError", rows |-> ps, next_pid |-> pid]
             ELSE LET added == NoteLoop(investment,
                                   AddMonths(Get(investment.issue_date), CouponMonths), 0)
                  IN  [status   |-> "ok",
                       rows     |-> kept \cup InsertPayments(investment, added, pid),
                       next_pid |-> pid + Len(added)]
        ELSE IF investment.investment_type = TREASURY_BILL
        THEN LET added == BillPayment(investment)
             IN  [status   |-> "ok",
                  rows     |-> kept \cup InsertPayments(investment, added, pid),
                  next_pid |-> pid + Len(added)]
        ELSE [status |-> "ok", rows |-> kept, next_pid |-> pid]

----------------------------------------------------------------------------
(* Sessions and transactions (database.py) *)

\* No generation is under way.
NoTransaction ==
    [pc |-> "idle", investment_id |-> 0, deleted |-> {}, added |-> << >>]

\* The mutation of C14: a query sees the uncommitted DELETE of another session.
ReadCommitted_Dirty(ps, tx) == ps \ tx.deleted

\* What a query of one session sees of table payment_schedules while another
\* session's transaction tx is open: the committed rows alone.  Each request
\* has its own Session (get_db), bound to the engine of DATABASE_URL
\* (PostgreSQL, isolation level read committed).
ReadCommitted(ps, tx) == ps

----------------------------------------------------------------------------
(* POST /investments/ *)

Users == {"u1", "u2"}

\* Investment(user_id=current_user.id, **investment_data.dict()) after
\* db.add, db.commit and db.refresh
NewInvestment(current_user, body, id) ==
    [id                 |-> id,
     user_id            |-> current_user,
     investment_type    |-> body.investment_type,
     description        |-> body.description,
     face_value         |-> body.face_value,
     purchase_price     |-> body.purchase_price,
     annual_coupon_rate |-> BodyDict(body).annual_coupon_rate,
     issue_date         |-> body.issue_date,
     purchase_date      |-> body.purchase_date,
     maturity_date      |-> body.maturity_date,
     status             |-> "active"]

create_investment(current_user, body) ==
    LET v == InvestmentCreate(body)
    IN  IF v # "ok"
        THEN /\ response' = Reply("create_investment", v, << >>, << >>)
             /\ UNCHANGED <<investments, payment_schedules,
                            next_investment_id, next_payment_id, updates>>
        ELSE LET db_investment ==
                     NewInvestment(current_user, body, next_investment_id)
                 g == generate_payment_schedule(payment_schedules,
                                                db_investment, next_payment_id)
             IN  /\ investments' = investments \cup {db_investment}
                 /\ next_investment_id' = next_investment_id + 1
                 /\ payment_schedules' = g.rows
                 /\ next_payment_id' = g.next_pid
                 /\ UNCHANGED updates
                 /\ response' =
                        Reply("create_investment",
                              IF g.status # "ok" THEN g.status
                              ELSE InvestmentResponse(db_investment),
                              << >>, <<db_investment.id>>)


----------------------------------------------------------------------------
(* GET /investments/{investment_id}, PUT and DELETE of the same path *)

\* The mutation of C16: the query does not filter on the owner.
OwnedInvestment_AnyUser(current_user, investment_id) ==
    {i \in investments : i.id = investment_id}

\* db.query(Investment).filter(and_(id == investment_id,
\*                                  user_id == current_user.id)).first()
OwnedInvestment(current_user, investment_id) ==
    {i \in investments : i.id = investment_id /\ i.user_id = current_user}

\* .order_by(PaymentSchedule.payment_date).all(): the rows in an order of
\* ascending payment_date (rows of one date in any order)
OrderedByDate(rows) ==
    LET k == Cardinality(rows)
    IN  {s \in [1..k -> rows] :
            \A a, b \in 1..k : a < b =>
                /\ s[a] # s[b]
                /\ s[a].payment_date <= s[b].payment_date}

\* PaymentScheduleResponse: payment_amount is Field(..., gt=0), payment_status
\* a PaymentStatus, not optional
PaymentScheduleResponse(row) ==
    IF row.payment_amount > 0 /\ row.payment_status \in PaymentStatus
    THEN "ok" ELSE "ResponseValidationError"

\* InvestmentWithPayments: InvestmentResponse with a list of
\* PaymentScheduleResponse
InvestmentWithPayments(row, rows) ==
    IF InvestmentResponse(row) = "ok"
       /\ \A p \in rows : PaymentScheduleResponse(p) = "ok"
    THEN "ok" ELSE "ResponseValidationError"

get_investment(current_user, investment_id) ==
    LET found == OwnedInvestment(current_user, investment_id)
        rows == {p \in ReadCommitted(payment_schedules, transaction) :
                    p.investment_id = investment_id}
    IN  /\ IF found = {}
           THEN response' = Reply("get_investment", "NotFound", << >>, << >>)
           ELSE LET investment == CHOOSE i \in found : TRUE
                IN  \E s \in OrderedByDate(rows) :
                        response' =
                            Reply("get_investment",
                                  InvestmentWithPayments(investment, rows),
                                  <<investment_id>>,
                                  [investment |-> investment,
                                   payment_schedules |-> s])
        /\ UNCHANGED <<investments, payment_schedules, next_investment_id,
                       next_payment_id, updates, transaction>>

\* The mutation of C15: a reported actual amount overwrites the scheduled one.
ApplyFields_WithAmount(row, update) ==
    [f \in DOMAIN row |->
        IF f \in update.fields_set THEN update[f]
        ELSE IF f = "payment_amount"
                /\ "actual_payment_amount" \in update.fields_set
             THEN Get(update.actual_payment_amount)
             ELSE row[f]]

\* for field, value in update.dict(exclude_unset=True).items(): setattr(...)
ApplyFields(row, update) ==
    [f \in DOMAIN row |-> IF f \in update.fields_set THEN update[f] ELSE row[f]]

update_investment(current_user, investment_id, investment_update) ==
    LET found == OwnedInvestment(current_user, investment_id)
    IN  IF found = {}
        THEN /\ response' = Reply("update_investment", "NotFound", << >>, << >>)
             /\ UNCHANGED <<investments, payment_schedules,
                            next_investment_id, next_payment_id, updates>>
        ELSE LET investment == CHOOSE i \in found : TRUE
                 updated == ApplyFields(investment, investment_update)
             IN  /\ investments' = (investments \ {investment}) \cup {updated}
                 /\ updates' = updates + 1
                 /\ response' = Reply("update_investment",
                                      InvestmentResponse(updated),
                                      << >>, <<investment_id>>)
                 /\ UNCHANGED <<payment_schedules, next_investment_id,
                                next_payment_id>>

\* The mutation of C17: the relationship does not cascade.
Cascade_None(ps, investment_id) == ps

\* Investment.payment_schedules = relationship(..., cascade="all,
\* delete-orphan"): the rows left once the events of a deleted investment
\* are deleted with it
Cascade(ps, investment_id) ==
    {p \in ps : p.investment_id # investment_id}

\* db.delete(investment); db.commit()
delete_investment(current_user, investment_id) ==
    LET found == OwnedInvestment(current_user, investment_id)
    IN  IF found = {}
        THEN /\ response' = Reply("delete_investment", "NotFound", << >>, << >>)
             /\ UNCHANGED <<investments, payment_schedules,
                            next_investment_id, next_payment_id, updates>>
        ELSE /\ investments' = investments \ found
             /\ payment_schedules' = Cascade(payment_schedules, investment_id)
             /\ response' = Reply("delete_investment", "ok", << >>,
                                  <<investment_id>>)
             /\ UNCHANGED <<next_investment_id, next_payment_id, updates>>

----------------------------------------------------------------------------
(* GET /investments/{investment_id}/payments *)

\* status_filter is None or Some(status); `if status_filter:` filters on it
FilterByStatus(rows, status_filter) ==
    IF IsNone(status_filter) THEN rows
    ELSE {p \in rows : p.payment_status = Get(status_filter)}

get_payment_schedule(current_user, investment_id, status_filter) ==
    LET found == OwnedInvestment(current_user, investment_id)
        rows == FilterByStatus(
                    {p \in ReadCommitted(payment_schedules, transaction) :
                        p.investment_id = investment_id}, status_filter)
    IN  /\ IF found = {}
           THEN response' = Reply("get_payment_schedule", "NotFound",
                                  << >>, << >>)
           ELSE \E s \in OrderedByDate(rows) :
                    response' =
                        Reply("get_payment_schedule",
                              IF \A p \in rows : PaymentScheduleResponse(p) = "ok"
                              THEN "ok" ELSE "ResponseValidationError",
                              <<investment_id, status_filter>>, s)
        /\ UNCHANGED <<investments, payment_schedules, next_investment_id,
                       next_payment_id, updates, transaction>>

----------------------------------------------------------------------------
(* PUT /investments/{investment_id}/payments/{payment_id} *)

\* PaymentScheduleUpdate: actual_payment_amount is Field(None, gt=0)
PaymentScheduleUpdate(payment_update) ==
    IF "actual_payment_amount" \in payment_update.fields_set
       /\ ~IsNone(payment_update.actual_payment_amount)
       /\ Get(payment_update.actual_payment_amount) <= 0
    THEN "ValidationError" ELSE "ok"

update_payment(current_user, investment_id, payment_id, payment_update) ==
    LET found == OwnedInvestment(current_user, investment_id)
        payments == {p \in payment_schedules :
                        p.id = payment_id /\ p.investment_id = investment_id}
    IN  IF PaymentScheduleUpdate(payment_update) # "ok"
        THEN /\ response' = Reply("update_payment", "ValidationError",
                                  << >>, << >>)
             /\ UNCHANGED <<investments, payment_schedules,
                            next_investment_id, next_payment_id, updates>>
        ELSE IF found = {} \/ payments = {}
        THEN /\ response' = Reply("update_payment", "NotFound", << >>, << >>)
             /\ UNCHANGED <<investments, payment_schedules,
                            next_investment_id, next_payment_id, updates>>
        ELSE LET payment == CHOOSE p \in payments : TRUE
                 updated == ApplyFields(payment, payment_update)
             IN  /\ payment_schedules' =
                        (payment_schedules \ {payment}) \cup {updated}
                 /\ updates' = updates + 1
                 /\ response' = Reply("update_payment",
                                      PaymentScheduleResponse(updated),
                                      << >>, <<payment_id>>)
                 /\ UNCHANGED <<investments, next_investment_id,
                                next_payment_id>>

----------------------------------------------------------------------------
(* GET /investments/portfolio/summary *)

RECURSIVE SumField(_, _)
\* sum(row.f for row in rows)
SumField(rows, f) ==
    IF rows = {} THEN 0
    ELSE LET r == CHOOSE x \in rows : TRUE
         IN  r[f] + SumField(rows \ {r}, f)

\* The mutation of C7: paid events are counted as expected.
PendingPayments_WithPaid(ps, investment) ==
    {p \in ps : /\ p.investment_id = investment.id
                /\ p.payment_status \in {"pending", "due", "paid"}}

\* The query of lines 287-292
PendingPayments(ps, investment) ==
    {p \in ps : /\ p.investment_id = investment.id
                /\ p.payment_status \in {"pending", "due"}}

RECURSIVE ExpectedReturns(_, _)
\* The loop of lines 285-293
ExpectedReturns(ps, invs) ==
    IF invs = {} THEN 0
    ELSE LET investment == CHOOSE i \in invs : TRUE
         IN  SumField(PendingPayments(ps, investment), "payment_amount")
             + ExpectedReturns(ps, invs \ {investment})

\* A Decimal quotient a / b times 100, as the fraction <<numerator,
\* denominator>>; Decimal division by zero raises.
Percent(a, b) ==
    IF b = 0 THEN [status |-> "DivisionByZero", value |-> <<0, 1>>]
    ELSE [status |-> "ok", value |-> <<a * 100, b>>]

\* The mutation of C9: the quotient is taken without the guard.
PortfolioYield_Unguarded(expected_profit, total_purchase_price) ==
    Percent(expected_profit, total_purchase_price)

\* Line 296
PortfolioYield(expected_profit, total_purchase_price) ==
    IF total_purchase_price > 0
    THEN Percent(expected_profit, total_purchase_price)
    ELSE [status |-> "ok", value |-> <<0, 1>>]

\* The query of lines 275-277
ActiveInvestments(current_user) ==
    {i \in investments : i.user_id = current_user /\ i.status = "active"}

get_portfolio_summary(current_user) ==
    LET invs == ActiveInvestments(current_user)
        total_investments == Cardinality(invs)
        total_face_value == SumField(invs, "face_value")
        total_purchase_price == SumField(invs, "purchase_price")
        expected_returns == ExpectedReturns(payment_schedules, invs)
        expected_profit == expected_returns - total_purchase_price
        portfolio_yield == PortfolioYield(expected_profit, total_purchase_price)
    IN  /\ response' =
               Reply("get_portfolio_summary", portfolio_yield.status,
                     <<current_user>>,
                     IF portfolio_yield.status # "ok" THEN << >>
                     ELSE [total_investments    |-> total_investments,
                           active_investments   |-> total_investments,
                           total_face_value     |-> total_face_value,
                           total_purchase_price |-> total_purchase_price,
                           expected_returns     |-> expected_returns,
                           expected_profit      |-> expected_profit,
                           portfolio_yield      |-> portfolio_yield.value])
        /\ UNCHANGED <<investments, payment_schedules, next_investment_id,
                       next_payment_id, updates>>

----------------------------------------------------------------------------
(* GET /investments/portfolio/upcoming-payments *)

\* The names bound in the module routers/investments.py by its imports
ModuleNames ==
    { "APIRouter", "Depends", "HTTPException", "status", "Query", "Session",
      "and_", "or_", "List", "Optional", "datetime", "date", "Decimal", "uuid",
      "get_db", "User", "Investment", "PaymentSchedule", "InvestmentType",
      "InvestmentStatus", "PaymentStatus", "InvestmentCreate",
      "InvestmentUpdate", "InvestmentResponse", "InvestmentWithPayments",
      "PaymentScheduleResponse", "PaymentScheduleUpdate", "PortfolioSummary",
      "PortfolioResponse", "UpcomingPayment", "SuccessResponse",
      "get_current_user" }

\* The rows of the join of lines 318-326
UpcomingRows(current_user, today, end_date) ==
    {p \in payment_schedules :
        /\ \E i \in investments : i.id = p.investment_id /\ i.user_id = current_user
        /\ p.payment_status \in {"pending", "due"}
        /\ p.payment_date >= today
        /\ p.payment_date <= end_date}

\* .order_by(PaymentSchedule.payment_date).limit(limit).all(): the first
\* `limit` rows in an order of ascending payment_date (rows of one date in
\* any order)
OrderedLimited(rows, limit) ==
    LET k == Min(limit, Cardinality(rows))
    IN  {s \in [1..k -> rows] :
            /\ \A a, b \in 1..k : a < b =>
                   /\ s[a] # s[b]
                   /\ s[a].payment_date <= s[b].payment_date
            /\ \A r \in rows :
                   (\A a \in 1..k : s[a] # r) =>
                       \A a \in 1..k : s[a].payment_date <= r.payment_date}

\* Line 316 evaluates timedelta(days=days_ahead) first: a name the module does
\* not bind raises NameError before any query is made.
get_upcoming_payments(current_user, days_ahead, limit, today) ==
    /\ IF "timedelta" \notin ModuleNames
       THEN response' = Reply("get_upcoming_payments", "NameError",
                              <<current_user, days_ahead, limit, today>>, << >>)
       ELSE \E s \in OrderedLimited(
                        UpcomingRows(current_user, today,
                                     AddDays(today, days_ahead)), limit) :
                response' = Reply("get_upcoming_payments", "ok",
                                  <<current_user, days_ahead, limit, today>>, s)
    /\ UNCHANGED <<investments, payment_schedules, next_investment_id,
                   next_payment_id, updates>>

----------------------------------------------------------------------------
(* Authentication: auth.py.  A user's email stands for the user; time is   *)
(* counted in units of the lifetime of an access token.                    *)

SECRET_KEY == "your-secret-key-change-this-in-production"

\* ACCESS_TOKEN_EXPIRE_MINUTES (30 days), the unit of `now`
TokenLifetime == 1

\* pwd_context.hash and pwd_context.verify
get_password_hash(password) == <<"bcrypt", password>>

verify_password(plain_password, hashed_password) ==
    hashed_password = <<"bcrypt", plain_password>>

\* jwt.encode({"sub": ..., "exp": ...}, SECRET_KEY): the claims and the key
\* of the signature; equal claims give equal tokens
create_access_token(sub, expire) ==
    [sub |-> sub, exp |-> expire, key |-> SECRET_KEY]

\* jwt.decode checks the signature and the claim exp; the outcome is None or
\* Some(user_id)
verify_token(token, utcnow) ==
    IF token.key = SECRET_KEY /\ utcnow <= token.exp
    THEN Some(token.sub) ELSE None

\* authenticate_user: None or Some(user id)
authenticate_user(email, password) ==
    IF email \in DOMAIN users
       /\ verify_password(password, users[email].password_hash)
    THEN Some(email) ELSE None

\* The dependency get_current_user on the bearer token of a request: the
\* token is verified and the user looked up; table user_sessions is not read.
get_current_user(token) ==
    LET token_data == verify_token(token, now)
    IN  IF IsNone(token_data)
        THEN [status |-> "Unauthorized", user |-> None]
        ELSE IF Get(token_data) \notin DOMAIN users
        THEN [status |-> "Unauthorized", user |-> None]
        ELSE IF ~users[Get(token_data)].is_active
        THEN [status |-> "InactiveUser", user |-> None]
        ELSE [status |-> "ok", user |-> token_data]

\* create_user_session: the row added to user_sessions
create_user_session(user_id, token) ==
    [user_id |-> user_id, session_token |-> token,
     expires_at |-> now + TokenLifetime]

\* revoke_user_session and revoke_all_user_sessions: the rows left
revoke_user_session(token) ==
    {s \in user_sessions : s.session_token # token}

revoke_all_user_sessions(user_id) ==
    {s \in user_sessions : s.user_id # user_id}

----------------------------------------------------------------------------
(* The requests of routers/auth.py *)

\* POST /auth/login.  Column session_token is unique: a second login of a
\* user at the same time encodes the same token and its INSERT fails.
login_user(email, password) ==
    LET user == authenticate_user(email, password)
    IN  IF IsNone(user)
        THEN /\ response' = Reply("login_user", "Unauthorized", << >>, << >>)
             /\ UNCHANGED <<users, user_sessions, tokens, next_reset_token, now>>
        ELSE IF ~users[Get(user)].is_active
        THEN /\ response' = Reply("login_user", "InactiveUser", << >>, << >>)
             /\ UNCHANGED <<users, user_sessions, tokens, next_reset_token, now>>
        ELSE LET access_token ==
                     create_access_token(Get(user), now + TokenLifetime)
             IN  IF \E s \in user_sessions : s.session_token = access_token
                 THEN /\ response' = Reply("login_user", "IntegrityError",
                                           << >>, << >>)
                      /\ UNCHANGED <<users, user_sessions, tokens,
                                     next_reset_token, now>>
                 ELSE /\ user_sessions' = user_sessions
                            \cup {create_user_session(Get(user), access_token)}
                      /\ tokens' = tokens \cup {access_token}
                      /\ response' = Reply("login_user", "ok", << >>,
                                           <<access_token>>)
                      /\ UNCHANGED <<users, next_reset_token, now>>

\* POST /auth/logout
logout_user(token) ==
    LET current_user == get_current_user(token)
    IN  IF current_user.status # "ok"
        THEN /\ response' = Reply("logout_user", current_user.status,
                                  <<token>>, << >>)
             /\ UNCHANGED <<users, user_sessions, tokens, next_reset_token, now>>
        ELSE /\ user_sessions' = revoke_user_session(token)
             /\ response' = Reply("logout_user", "ok", <<token>>,
                                  <<\E s \in user_sessions :
                                        s.session_token = token>>)
             /\ UNCHANGED <<users, tokens, next_reset_token, now>>

\* POST /auth/logout-all
logout_all_sessions(token) ==
    LET current_user == get_current_user(token)
    IN  IF current_user.status # "ok"
        THEN /\ response' = Reply("logout_all_sessions", current_user.status,
                                  <<token>>, << >>)
             /\ UNCHANGED <<users, user_sessions, tokens, next_reset_token, now>>
        ELSE /\ user_sessions' =
                    revoke_all_user_sessions(Get(current_user.user))
             /\ response' = Reply("logout_all_sessions", "ok", <<token>>,
                                  current_user.user)
             /\ UNCHANGED <<users, tokens, next_reset_token, now>>

\* GET /auth/me, an endpoint that depends on get_current_user and on nothing
\* else
get_current_user_info(token) ==
    LET current_user == get_current_user(token)
    IN  /\ response' = Reply("get_current_user_info", current_user.status,
                             <<token>>, current_user.user)
        /\ UNCHANGED <<users, user_sessions, tokens, next_reset_token, now>>

\* POST /auth/forgot-password.  password_reset_expires is one hour after
\* utcnow(), less than one unit of `now`: the column holds the unit in which
\* the token expires.
forgot_password(email) ==
    /\ response' = Reply("forgot_password", "ok", << >>, << >>)
    /\ IF email \in DOMAIN users
       THEN /\ users' = [users EXCEPT ![email] =
                           [@ EXCEPT !.password_reset_token =
                                         Some(next_reset_token),
                                     !.password_reset_expires = Some(now)]]
            /\ next_reset_token' = next_reset_token + 1
       ELSE UNCHANGED <<users, next_reset_token>>
    /\ UNCHANGED <<user_sessions, tokens, now>>

\* POST /auth/reset-password
reset_password(token, new_password) ==
    LET found == {u \in DOMAIN users :
                    /\ users[u].password_reset_token = Some(token)
                    /\ Get(users[u].password_reset_expires) >= now}
    IN  IF found = {}
        THEN /\ response' = Reply("reset_password", "BadRequest", << >>, << >>)
             /\ UNCHANGED <<users, user_sessions, tokens, next_reset_token, now>>
        ELSE LET user == CHOOSE u \in found : TRUE
             IN  /\ users' = [users EXCEPT ![user] =
                                [@ EXCEPT !.password_hash =
                                              get_password_hash(new_password),
                                          !.password_reset_token = None,
                                          !.password_reset_expires = None]]
                 /\ user_sessions' = revoke_all_user_sessions(user)
                 /\ response' = Reply("reset_password", "ok", << >>, <<user>>)
                 /\ UNCHANGED <<tokens, next_reset_token, now>>

----------------------------------------------------------------------------
(* Initial state and request bodies *)

\* The password of both registered users
InitialPassword == "pw1"

Init ==
    /\ investments = {}
    /\ payment_schedules = {}
    /\ next_investment_id = 1
    /\ next_payment_id = 1
    /\ updates = 0
    /\ response = Reply("none", "ok", << >>, << >>)
    /\ transaction = NoTransaction
    /\ users = [u \in Users |->
                  [password_hash          |-> get_password_hash(InitialPassword),
                   is_active              |-> TRUE,
                   password_reset_token   |-> None,
                   password_reset_expires |-> None]]
    /\ user_sessions = {}
    /\ tokens = {}
    /\ next_reset_token = 1
    /\ now = 0

\* Request bodies of POST /investments/.  Face values and prices in cents
\* (0 is rejected; 1 and 100 give a coupon of 0.00025 and of 0.025, the latter
\* a tie between two cents), rates in 1/10000; the dates give terms of one and two
\* half-years, month-end anchors, terms that are no whole number of
\* half-years, an issue date before and after the purchase date, and a
\* maturity date that is not after the purchase date.
FaceValues == {0, 1, 100, 101, 10000}

PurchasePrices == {9500}

CouponRates == {None, Some(0), Some(500)}

IssueDates ==
    {None, Some(20230715), Some(20240115), Some(20240831), Some(20241001)}

PurchaseDates == {20240115, 20240831}

MaturityDates ==
    {20240115, 20240715, 20241201, 20250115, 20250228, 20250828, 20250831}

CreateRequests ==
    [investment_type    : InvestmentType,
     description        : {None},
     face_value         : FaceValues,
     purchase_price     : PurchasePrices,
     annual_coupon_rate : CouponRates,
     issue_date         : IssueDates,
     purchase_date      : PurchaseDates,
     maturity_date      : MaturityDates,
     unset              : {{}}]
    \cup
    [investment_type    : InvestmentType,
     description        : {None},
     face_value         : FaceValues,
     purchase_price     : PurchasePrices,
     annual_coupon_rate : {None},
     issue_date         : IssueDates,
     purchase_date      : PurchaseDates,
     maturity_date      : MaturityDates,
     unset              : {{"annual_coupon_rate"}}]

----------------------------------------------------------------------------
(* SpecGen: one POST /investments/ on an empty database, over every        *)
(* request body of CreateRequests                                          *)

CreateOnEmpty ==
    /\ investments = {}
    /\ \E current_user \in Users, body \in CreateRequests :
           create_investment(current_user, body)
    /\ UNCHANGED <<transaction, authvars>>

NextGen == CreateOnEmpty

SpecGen == Init /\ [][NextGen]_vars


----------------------------------------------------------------------------
(* Spec: the requests of the investments router in any order, by two users *)

MaxInvestments == 2

MaxUpdates == 1

BaseRequest ==
    [investment_type    |-> TREASURY_NOTE,
     description        |-> None,
     face_value         |-> 10000,
     purchase_price     |-> 9500,
     annual_coupon_rate |-> Some(500),
     issue_date         |-> Some(20240115),
     purchase_date      |-> 20240115,
     maturity_date      |-> 20250115,
     unset              |-> {}]

\* A note of two half-years, a bill without issue date, and a bill whose
\* maturity date is its purchase date (rejected).
SmallRequests ==
    { BaseRequest,
      [BaseRequest EXCEPT !.investment_type = TREASURY_BILL,
                          !.purchase_price = 9000,
                          !.annual_coupon_rate = Some(0),
                          !.issue_date = None,
                          !.maturity_date = 20240715],
      [BaseRequest EXCEPT !.investment_type = TREASURY_BILL,
                          !.annual_coupon_rate = Some(0),
                          !.maturity_date = 20240115] }

InvestmentUpdates ==
    [description : {None}, status : InvestmentStatus, fields_set : {{"status"}}]

PaymentUpdates ==
    { [payment_status |-> "paid", actual_payment_date |-> Some(20240716),
       actual_payment_amount |-> Some(250),
       fields_set |-> {"payment_status", "actual_payment_date",
                       "actual_payment_amount"}],
      [payment_status |-> "due", actual_payment_date |-> None,
       actual_payment_amount |-> None, fields_set |-> {"payment_status"}],
      [payment_status |-> "overdue", actual_payment_date |-> None,
       actual_payment_amount |-> None, fields_set |-> {"payment_status"}],
      [payment_status |-> "pending", actual_payment_date |-> None,
       actual_payment_amount |-> Some(0),
       fields_set |-> {"payment_status", "actual_payment_amount"}] }

\* Path parameters: the ids in use and, for each table, one id that is not.
InvestmentIds == {i.id : i \in investments} \cup {next_investment_id}

PaymentIds == {p.id : p \in payment_schedules} \cup {next_payment_id}

Todays == {20240715}

DaysAhead == {90}

Limits == {50}

CreateInvestment ==
    /\ next_investment_id <= MaxInvestments
    /\ \E current_user \in Users, body \in SmallRequests :
           create_investment(current_user, body)
    /\ UNCHANGED <<transaction, authvars>>

UpdateInvestment ==
    /\ updates < MaxUpdates
    /\ \E current_user \in Users, id \in InvestmentIds, u \in InvestmentUpdates :
           update_investment(current_user, id, u)
    /\ UNCHANGED <<transaction, authvars>>

DeleteInvestment ==
    /\ \E current_user \in Users, id \in InvestmentIds :
           delete_investment(current_user, id)
    /\ UNCHANGED <<transaction, authvars>>

UpdatePayment ==
    /\ updates < MaxUpdates
    /\ \E current_user \in Users, id \in InvestmentIds, pid \in PaymentIds,
          u \in PaymentUpdates :
           update_payment(current_user, id, pid, u)
    /\ UNCHANGED <<transaction, authvars>>

GetPortfolioSummary ==
    /\ \E current_user \in Users : get_portfolio_summary(current_user)
    /\ UNCHANGED <<transaction, authvars>>

GetUpcomingPayments ==
    /\ \E current_user \in Users, days_ahead \in DaysAhead, limit \in Limits,
          today \in Todays :
           get_upcoming_payments(current_user, days_ahead, limit, today)
    /\ UNCHANGED <<transaction, authvars>>

Next ==
    \/ CreateInvestment
    \/ UpdateInvestment
    \/ DeleteInvestment
    \/ UpdatePayment
    \/ GetPortfolioSummary
    \/ GetUpcomingPayments

Spec == Init /\ [][Next]_vars

----------------------------------------------------------------------------
(* SpecAccess: the requests that name an investment in their path, by two  *)
(* users, each naming its own, the other's and an unused investment id     *)

StatusFilters == {None, Some("pending")}

\* One status update, and of the payment updates the first (paid, with the
\* actual payment) and the last (invalid)
AccessInvestmentUpdates == {u \in InvestmentUpdates : u.status = "sold"}

AccessPaymentUpdates ==
    {u \in PaymentUpdates : "actual_payment_amount" \in u.fields_set}

CreateForAccess ==
    /\ next_investment_id <= MaxInvestments
    /\ \E current_user \in Users : create_investment(current_user, BaseRequest)
    /\ UNCHANGED <<transaction, authvars>>

UpdateInvestmentAccess ==
    /\ updates < MaxUpdates
    /\ \E current_user \in Users, id \in InvestmentIds,
          u \in AccessInvestmentUpdates :
           update_investment(current_user, id, u)
    /\ UNCHANGED <<transaction, authvars>>

UpdatePaymentAccess ==
    /\ updates < MaxUpdates
    /\ \E current_user \in Users, id \in InvestmentIds, pid \in PaymentIds,
          u \in AccessPaymentUpdates :
           update_payment(current_user, id, pid, u)
    /\ UNCHANGED <<transaction, authvars>>

GetInvestment ==
    /\ \E current_user \in Users, id \in InvestmentIds :
           get_investment(current_user, id)
    /\ UNCHANGED authvars

GetPaymentSchedule ==
    /\ \E current_user \in Users, id \in InvestmentIds,
          status_filter \in StatusFilters :
           get_payment_schedule(current_user, id, status_filter)
    /\ UNCHANGED authvars

NextAccess ==
    \/ CreateForAccess
    \/ GetInvestment
    \/ UpdateInvestmentAccess
    \/ DeleteInvestment
    \/ GetPaymentSchedule
    \/ UpdatePaymentAccess

SpecAccess == Init /\ [][NextAccess]_vars

----------------------------------------------------------------------------
(* SpecRegen: generate_payment_schedule called again for a persisted       *)
(* investment, between the requests that create investments and update     *)
(* payments                                                                *)

MaxPaymentId == 6

\* The note of two half-years, the bill, and the note without issue date
RegenRequests ==
    { r \in SmallRequests : InvestmentCreate(r) = "ok" }
    \cup { [BaseRequest EXCEPT !.issue_date = None] }

\* generate_payment_schedule(db, investment) for a persisted investment
regenerate(investment) ==
    LET g == generate_payment_schedule(payment_schedules, investment,
                                       next_payment_id)
    IN  /\ payment_schedules' = g.rows
        /\ next_payment_id' = g.next_pid
        /\ response' = Reply("generate_payment_schedule", g.status, << >>,
                             <<investment.id>>)
        /\ UNCHANGED <<investments, next_investment_id, updates>>

CreateForRegen ==
    /\ next_investment_id <= MaxInvestments
    /\ \E body \in RegenRequests : create_investment("u1", body)
    /\ UNCHANGED <<transaction, authvars>>

Regenerate ==
    /\ next_payment_id <= MaxPaymentId
    /\ \E investment \in investments : regenerate(investment)
    /\ UNCHANGED <<transaction, authvars>>

NextRegen ==
    \/ CreateForRegen
    \/ UpdatePayment
    \/ Regenerate

SpecRegen == Init /\ [][NextRegen]_vars

----------------------------------------------------------------------------
(* SpecConc: POST /investments/ and a further generate_payment_schedule    *)
(* taken statement by statement in their own session, while other requests *)
(* read payment schedules                                                  *)

\* create_investment up to the DELETE of generate_payment_schedule (lines
\* 84-92, then line 23, which finds no row of the new investment): the
\* investment is committed, the transaction of the generation is open.
post_investment(current_user, body) ==
    LET v == InvestmentCreate(body)
    IN  IF v # "ok"
        THEN /\ response' = Reply("create_investment", v, << >>, << >>)
             /\ UNCHANGED <<investments, payment_schedules, next_investment_id,
                            next_payment_id, updates, transaction>>
        ELSE LET db_investment ==
                     NewInvestment(current_user, body, next_investment_id)
             IN  /\ investments' = investments \cup {db_investment}
                 /\ next_investment_id' = next_investment_id + 1
                 /\ transaction' =
                        [pc |-> "deleted", investment_id |-> db_investment.id,
                         deleted |-> {}, added |-> << >>]
                 /\ UNCHANGED <<payment_schedules, next_payment_id, updates,
                                response>>

\* Line 23 for a persisted investment: the DELETE is executed in the
\* transaction of the caller's session, not yet committed.
delete_existing(investment) ==
    /\ transaction' =
           [pc |-> "deleted", investment_id |-> investment.id,
            deleted |-> payment_schedules
                          \ ClearExisting(payment_schedules, investment),
            added |-> << >>]
    /\ UNCHANGED <<investments, payment_schedules, next_investment_id,
                   next_payment_id, updates, response>>

\* Lines 25-72: the PaymentSchedule objects are added to the session; an
\* exception ends the request, and the close of the session rolls back.
add_payments(investment) ==
    IF investment.investment_type = TREASURY_NOTE /\ NoteRaises(investment)
    THEN /\ transaction' = NoTransaction
         /\ response' = Reply("generate_payment_schedule", "TypeError", << >>,
                              <<investment.id>>)
         /\ UNCHANGED <<investments, payment_schedules, next_investment_id,
                        next_payment_id, updates>>
    ELSE /\ transaction' =
                [transaction EXCEPT
                    !.pc = "added",
                    !.added =
                        IF investment.investment_type = TREASURY_NOTE
                        THEN NoteLoop(investment,
                                      AddMonths(Get(investment.issue_date),
                                                CouponMonths), 0)
                        ELSE IF investment.investment_type = TREASURY_BILL
                        THEN BillPayment(investment)
                        ELSE << >>]
         /\ UNCHANGED <<investments, payment_schedules, next_investment_id,
                        next_payment_id, updates, response>>

\* Line 74, db.commit(): the DELETE and the inserts become visible together.
commit_schedule(investment) ==
    /\ payment_schedules' =
           (payment_schedules \ transaction.deleted)
           \cup InsertPayments(investment, transaction.added, next_payment_id)
    /\ next_payment_id' = next_payment_id + Len(transaction.added)
    /\ transaction' = NoTransaction
    /\ response' = Reply("generate_payment_schedule", "ok", << >>,
                         <<investment.id>>)
    /\ UNCHANGED <<investments, next_investment_id, updates>>

\* The investment of the open transaction
Generating == {i \in investments : i.id = transaction.investment_id}

PostInvestment ==
    /\ transaction.pc = "idle"
    /\ next_investment_id <= MaxInvestments
    /\ \E body \in RegenRequests : post_investment("u1", body)
    /\ UNCHANGED authvars

DeleteExisting ==
    /\ transaction.pc = "idle"
    /\ next_payment_id <= MaxPaymentId
    /\ \E investment \in investments : delete_existing(investment)
    /\ UNCHANGED authvars

AddPayments ==
    /\ transaction.pc = "deleted"
    /\ \E investment \in Generating : add_payments(investment)
    /\ UNCHANGED authvars

CommitSchedule ==
    /\ transaction.pc = "added"
    /\ \E investment \in Generating : commit_schedule(investment)
    /\ UNCHANGED authvars

ReadPaymentSchedule ==
    /\ \E current_user \in Users, investment \in investments :
           get_payment_schedule(current_user, investment.id, None)
    /\ UNCHANGED authvars

NextConc ==
    \/ PostInvestment
    \/ DeleteExisting
    \/ AddPayments
    \/ CommitSchedule
    \/ ReadPaymentSchedule

SpecConc == Init /\ [][NextConc]_vars

----------------------------------------------------------------------------
(* SpecAuth: the requests of the auth router by the two registered users   *)
(* and by a stranger, while time passes                                    *)

MaxTime == 2

MaxResets == 1

Emails == Users \cup {"nobody"}

Passwords == {InitialPassword, "pw2"}

\* A token that was not signed with SECRET_KEY
ForgedToken == [sub |-> "u1", exp |-> MaxTime + TokenLifetime, key |-> "forged"]

\* The bearer tokens a client can present
BearerTokens == tokens \cup {ForgedToken}

\* The reset tokens a client can present: those handed out and one that
\* was not
ResetTokens == 1..next_reset_token

basevars == <<investments, payment_schedules, next_investment_id,
              next_payment_id, updates, transaction>>

LoginUser ==
    /\ \E email \in Emails, password \in Passwords : login_user(email, password)
    /\ UNCHANGED basevars

LogoutUser ==
    /\ \E token \in BearerTokens : logout_user(token)
    /\ UNCHANGED basevars

LogoutAllSessions ==
    /\ \E token \in BearerTokens : logout_all_sessions(token)
    /\ UNCHANGED basevars

GetCurrentUserInfo ==
    /\ \E token \in BearerTokens : get_current_user_info(token)
    /\ UNCHANGED basevars

ForgotPassword ==
    /\ next_reset_token <= MaxResets
    /\ \E email \in Emails : forgot_password(email)
    /\ UNCHANGED basevars

ResetPassword ==
    /\ \E token \in ResetTokens, new_password \in Passwords :
           reset_password(token, new_password)
    /\ UNCHANGED basevars

\* Time passes.
Tick ==
    /\ now < MaxTime
    /\ now' = now + 1
    /\ UNCHANGED <<basevars, response, users, user_sessions, tokens,
                   next_reset_token>>

NextAuth ==
    \/ LoginUser
    \/ LogoutUser
    \/ LogoutAllSessions
    \/ GetCurrentUserInfo
    \/ ForgotPassword
    \/ ResetPassword
    \/ Tick

SpecAuth == Init /\ [][NextAuth]_vars

----------------------------------------------------------------------------
(* Schedule properties *)

EventsOf(id) == {p \in payment_schedules : p.investment_id = id}

Notes == {i \in investments : i.investment_type = TREASURY_NOTE}

Bills == {i \in investments : i.investment_type = TREASURY_BILL}

\* cents is fine/FinePerCent rounded to the nearest cent (either way at a tie)
NearestCent(cents, fine) ==
    /\ 2 * (cents * FinePerCent - fine) <= FinePerCent
    /\ 2 * (fine - cents * FinePerCent) <= FinePerCent

\* C1: every event of a note that falls on the maturity date is a
\* final_payment of coupon_amount + face_value, every other event of a note
\* is a coupon of coupon_amount = face_value * annual_coupon_rate / 2 (the
\* amounts at the precision of the column), and no event of a note is of kind
\* principal.
C1_NoteKindsAndAmounts ==
    \A i \in Notes : \A p \in EventsOf(i.id) :
        /\ ~IsNone(i.annual_coupon_rate)
        /\ p.payment_type # "principal"
        /\ IF p.payment_date = i.maturity_date
           THEN /\ p.payment_type = "final_payment"
                /\ NearestCent(p.payment_amount - i.face_value,
                               i.face_value * Get(i.annual_coupon_rate))
           ELSE /\ p.payment_type = "coupon"
                /\ NearestCent(p.payment_amount,
                               i.face_value * Get(i.annual_coupon_rate))

\* C1 witness: a note with a coupon event and a final payment whose amounts
\* differ by the face value, the coupon having been rounded to the cent.
C1_Witness ==
    \E i \in Notes : \E p, q \in EventsOf(i.id) :
        /\ p.payment_type = "coupon"
        /\ q.payment_type = "final_payment"
        /\ q.payment_date = i.maturity_date
        /\ p.payment_amount > 0
        /\ q.payment_amount = p.payment_amount + i.face_value
        /\ p.payment_amount * FinePerCent # i.face_value * Get(i.annual_coupon_rate)

\* Calendar-month addition as the specification words it: six months later,
\* the day of the month kept where the target month has it and otherwise the
\* last day of the target month.
MonthIndex(dt) == YearOf(dt) * 12 + MonthOf(dt) - 1

SixMonthsAfter(dt) ==
    LET k == MonthIndex(dt) + 6
        y == k \div 12
        m == (k % 12) + 1
    IN  MkDate(y, m, IF DayOf(dt) <= DaysInMonth(y, m)
                     THEN DayOf(dt) ELSE DaysInMonth(y, m))

RECURSIVE CandidateDates(_, _)
CandidateDates(dt, maturity) ==
    IF dt > maturity THEN {}
    ELSE {dt} \cup CandidateDates(SixMonthsAfter(dt), maturity)

\* The cadence anchor of the specification: the issue date, or the purchase
\* date when there is no issue date.
CadenceAnchor(i) ==
    IF IsNone(i.issue_date) THEN i.purchase_date ELSE Get(i.issue_date)

EventDates(id) == {p.payment_date : p \in EventsOf(id)}

\* C2: the event dates of every note are exactly the candidate dates
\* anchor + 6 months, + 12 months, ... (each six months after the one before)
\* that are on or before the maturity date, one event per date, created in
\* ascending order of date.
C2_NoteDates ==
    \A i \in Notes :
        /\ EventDates(i.id) =
               CandidateDates(SixMonthsAfter(CadenceAnchor(i)), i.maturity_date)
        /\ Cardinality(EventsOf(i.id)) = Cardinality(EventDates(i.id))
        /\ \A p, q \in EventsOf(i.id) :
               p.id < q.id <=> p.payment_date < q.payment_date

\* C3: a treasury bill with face value F and maturity date M has exactly one
\* payment event, of date M, amount F and kind principal.
C3_BillSchedule ==
    \A i \in Bills :
        /\ Cardinality(EventsOf(i.id)) = 1
        /\ \A p \in EventsOf(i.id) :
               /\ p.payment_date = i.maturity_date
               /\ p.payment_amount = i.face_value
               /\ p.payment_type = "principal"

\* C3 witness: a bill created without an issue date carries its one event.
C3_Witness ==
    \E i \in Bills :
        /\ IsNone(i.issue_date)
        /\ \E p \in EventsOf(i.id) : p.payment_type = "principal"
        /\ response.op = "create_investment" /\ response.body = <<i.id>>

\* C4: once create_investment has completed, every persisted investment has
\* exactly one event of kind principal or final_payment, and that event is
\* scheduled on the maturity date.
C4_OnePrincipalEvent ==
    (response.op = "create_investment" /\ response.status = "ok") =>
        \A i \in investments :
            /\ Cardinality({p \in EventsOf(i.id) :
                   p.payment_type \in {"principal", "final_payment"}}) = 1
            /\ \A p \in EventsOf(i.id) :
                   p.payment_type \in {"principal", "final_payment"} =>
                       p.payment_date = i.maturity_date

\* C5: a note persisted without an issue date has its first event six months
\* after the purchase date (when that is on or before maturity), and its
\* creation did not end in an error.
C5_PurchaseDateFallback ==
    \A i \in Notes :
        IsNone(i.issue_date) =>
            /\ SixMonthsAfter(i.purchase_date) <= i.maturity_date =>
                   /\ EventsOf(i.id) # {}
                   /\ \A p \in EventsOf(i.id) :
                          p.payment_date >= SixMonthsAfter(i.purchase_date)
                   /\ \E p \in EventsOf(i.id) :
                          p.payment_date = SixMonthsAfter(i.purchase_date)
            /\ ~(/\ response.op = "create_investment"
                 /\ response.body = <<i.id>>
                 /\ response.status = "TypeError")

----------------------------------------------------------------------------
(* Regeneration *)

\* An event without its id and with the fields a status update may have
\* changed as they are on creation
AsGenerated(p) ==
    [investment_id  |-> p.investment_id,
     payment_date   |-> p.payment_date,
     payment_amount |-> p.payment_amount,
     payment_type   |-> p.payment_type,
     description    |-> p.description]

IsFresh(p) ==
    /\ p.payment_status = "pending"
    /\ IsNone(p.actual_payment_date)
    /\ IsNone(p.actual_payment_amount)

\* C6: a further successful generate_payment_schedule for an investment
\* leaves for it exactly the events of one call: the same dates, amounts and
\* kinds as before, each once, all of them new rows in their initial status;
\* no earlier row survives, whatever its status had become.
C6_RegenerationReplaces ==
    [][ (response'.op = "generate_payment_schedule" /\ response'.status = "ok")
        => LET id  == response'.body[1]
               old == {p \in payment_schedules : p.investment_id = id}
               new == {p \in payment_schedules' : p.investment_id = id}
           IN  /\ {AsGenerated(p) : p \in new} = {AsGenerated(p) : p \in old}
               /\ Cardinality(new) = Cardinality({AsGenerated(p) : p \in old})
               /\ \A p \in new : IsFresh(p)
               /\ {p.id : p \in new} \cap {p.id : p \in old} = {}
               /\ {p \in payment_schedules' : p.investment_id # id}
                    = {p \in payment_schedules : p.investment_id # id} ]_vars

\* C6 witness: a note is regenerated after one of its events was paid; its
\* two events are new rows, both pending.
C6_Witness ==
    /\ response.op = "generate_payment_schedule"
    /\ response.status = "ok"
    /\ updates > 0
    /\ \E i \in Notes :
           /\ response.body = <<i.id>>
           /\ Cardinality(EventsOf(i.id)) = 2
           /\ \A p \in EventsOf(i.id) : IsFresh(p) /\ p.id > 2

----------------------------------------------------------------------------
(* Portfolio aggregation *)

\* C7: the expected_returns of a portfolio summary is the sum of the amounts
\* of the payment events that are pending or due and belong to an active
\* investment of the user.
C7_ExpectedReturns ==
    (response.op = "get_portfolio_summary" /\ response.status = "ok") =>
        response.body.expected_returns =
            SumField({p \in payment_schedules :
                        /\ p.payment_status \in {"pending", "due"}
                        /\ \E i \in investments :
                               /\ i.id = p.investment_id
                               /\ i.user_id = response.args[1]
                               /\ i.status = "active"},
                     "payment_amount")

\* C7 witness: a summary for a user whose active note has one paid and one
\* pending event, while another user holds pending events: only the pending
\* event of the user counts.
C7_Witness ==
    /\ response.op = "get_portfolio_summary"
    /\ response.status = "ok"
    /\ \E i \in investments : \E p, q \in EventsOf(i.id) :
           /\ i.user_id = response.args[1]
           /\ i.status = "active"
           /\ p.payment_status = "paid"
           /\ q.payment_status = "pending"
           /\ response.body.expected_returns = q.payment_amount
    /\ \E j \in investments : \E r \in EventsOf(j.id) :
           j.user_id # response.args[1] /\ r.payment_status = "pending"

----------------------------------------------------------------------------
(* Upcoming payments *)

\* C8: get_upcoming_payments answers with the list of the user's events that
\* are pending or due and dated from today to today + days_ahead inclusive,
\* in ascending order of date, cut to the first `limit`; it does not fail.
C8_UpcomingPayments ==
    response.op = "get_upcoming_payments" =>
        /\ response.status = "ok"
        /\ LET current_user == response.args[1]
               days_ahead   == response.args[2]
               limit        == response.args[3]
               today        == response.args[4]
               due == {p \in payment_schedules :
                          /\ p.payment_status \in {"pending", "due"}
                          /\ \E i \in investments :
                                 i.id = p.investment_id /\ i.user_id = current_user
                          /\ today <= p.payment_date
                          /\ p.payment_date <= AddDays(today, days_ahead)}
               n == Len(response.body)
           IN  /\ n = Min(limit, Cardinality(due))
               /\ \A a \in 1..n : response.body[a] \in due
               /\ \A a, b \in 1..n : a < b =>
                      /\ response.body[a] # response.body[b]
                      /\ response.body[a].payment_date
                           <= response.body[b].payment_date
               /\ \A r \in due :
                      (\A a \in 1..n : response.body[a] # r) =>
                          \A a \in 1..n :
                              response.body[a].payment_date <= r.payment_date

----------------------------------------------------------------------------
(* Summary arithmetic *)

\* C9: a portfolio summary never fails; expected_profit is expected_returns
\* less total_purchase_price, portfolio_yield is expected_profit /
\* total_purchase_price * 100 when total_purchase_price > 0 and 0 otherwise,
\* and for a user without active investments every field is zero.
C9_SummaryArithmetic ==
    response.op = "get_portfolio_summary" =>
        /\ response.status = "ok"
        /\ LET b == response.body
           IN  /\ b.expected_profit = b.expected_returns - b.total_purchase_price
               /\ IF b.total_purchase_price > 0
                  THEN b.portfolio_yield =
                           <<b.expected_profit * 100, b.total_purchase_price>>
                  ELSE b.portfolio_yield[1] = 0 /\ b.portfolio_yield[2] # 0
               /\ (~\E i \in investments :
                       i.user_id = response.args[1] /\ i.status = "active")
                  => /\ b.total_investments = 0
                     /\ b.active_investments = 0
                     /\ b.total_face_value = 0
                     /\ b.total_purchase_price = 0
                     /\ b.expected_returns = 0
                     /\ b.expected_profit = 0
                     /\ b.portfolio_yield[1] = 0

\* C9 witness: a summary for a user whose only investment is no longer
\* active: the total purchase price is 0 and so is the yield.
C9_Witness ==
    /\ response.op = "get_portfolio_summary"
    /\ response.status = "ok"
    /\ \E i \in investments : i.user_id = response.args[1]
    /\ \A i \in investments : i.user_id = response.args[1] => i.status # "active"
    /\ response.body.total_purchase_price = 0
    /\ response.body.portfolio_yield = <<0, 1>>

----------------------------------------------------------------------------
(* Failed creation *)

\* C10: a create_investment that reports an error leaves no investment and
\* no payment event behind (the database was empty before the request).
C10_ErrorLeavesNothing ==
    (response.op = "create_investment" /\ response.status # "ok") =>
        investments = {} /\ payment_schedules = {}

----------------------------------------------------------------------------
(* Record invariants of persisted investments and events *)

\* C11: every persisted investment satisfies the type/coupon invariant: a
\* treasury note has an annual_coupon_rate strictly greater than 0, a treasury
\* bill has an annual_coupon_rate of exactly 0, also when the request omitted
\* the rate or passed it as null.
C11_TypeCouponInvariant ==
    \A i \in investments :
        /\ i.investment_type = TREASURY_NOTE =>
               ~IsNone(i.annual_coupon_rate) /\ Get(i.annual_coupon_rate) > 0
        /\ i.investment_type = TREASURY_BILL =>
               i.annual_coupon_rate = Some(0)

\* C12: every persisted payment event has a scheduled amount strictly
\* greater than 0.
C12_PositiveAmounts ==
    \A p \in payment_schedules : p.payment_amount > 0

\* C13: every persisted investment that has an issue date has it on or before
\* its purchase date (a request with a later issue date persists nothing).
C13_IssueBeforePurchase ==
    \A i \in investments :
        ~IsNone(i.issue_date) => Get(i.issue_date) <= i.purchase_date

----------------------------------------------------------------------------
(* Concurrent readers *)

----------------------------------------------------------------------------
(* Frame of update_payment, ownership, cascade *)

\* C15: a step of update_payment leaves every investment record unchanged,
\* adds and removes no payment event, leaves every event other than the
\* addressed one unchanged, and leaves the addressed event its scheduled
\* date, scheduled amount, kind, description and investment_id.
C15_UpdatePaymentFrame ==
    [][ response'.op = "update_payment" =>
          /\ investments' = investments
          /\ Cardinality(payment_schedules') = Cardinality(payment_schedules)
          /\ \A p \in payment_schedules :
                 /\ response'.body # <<p.id>> => p \in payment_schedules'
                 /\ \E q \in payment_schedules' :
                        /\ q.id = p.id
                        /\ q.investment_id = p.investment_id
                        /\ q.payment_date = p.payment_date
                        /\ q.payment_amount = p.payment_amount
                        /\ q.payment_type = p.payment_type
                        /\ q.description = p.description ]_vars

\* C15 witness: a final payment has been marked paid with an actual amount
\* that differs from its scheduled amount, the coupon of the same note is
\* still pending.
C15_Witness ==
    /\ response.op = "update_payment"
    /\ response.status = "ok"
    /\ \E p, q \in payment_schedules :
           /\ response.body = <<p.id>>
           /\ p.payment_type = "final_payment"
           /\ p.payment_status = "paid"
           /\ ~IsNone(p.actual_payment_amount)
           /\ Get(p.actual_payment_amount) # p.payment_amount
           /\ q.investment_id = p.investment_id
           /\ q.payment_type = "coupon"
           /\ q.payment_status = "pending"

\* The user does not own an investment of this id: there is none of this id,
\* or it is another user's.
NotOwned(current_user, investment_id) ==
    ~\E i \in investments :
        i.id = investment_id /\ i.user_id = current_user

\* The one outcome of a refused request: NotFound, with nothing in it that
\* tells why, and no persisted record changed.
Refused(op) ==
    /\ response' = Reply(op, "NotFound", << >>, << >>)
    /\ investments' = investments
    /\ payment_schedules' = payment_schedules

\* C16: every step of get_investment, update_investment, delete_investment,
\* get_payment_schedule or update_payment (with a valid body) for an
\* investment id the user does not own, whether the id is another user's or
\* unused, ends in the same NotFound outcome and changes no persisted record;
\* so does update_payment for an owned investment and a payment id that is
\* unused or belongs to another investment.
C16_NotMineIsNotFound ==
    [][ \A current_user \in Users, id \in InvestmentIds :
          /\ (response'.op = "get_investment" /\ NotOwned(current_user, id)) =>
                 (get_investment(current_user, id) => Refused("get_investment"))
          /\ (response'.op = "update_investment" /\ NotOwned(current_user, id)) =>
                 \A u \in AccessInvestmentUpdates :
                     update_investment(current_user, id, u)
                         => Refused("update_investment")
          /\ (response'.op = "delete_investment" /\ NotOwned(current_user, id)) =>
                 (delete_investment(current_user, id)
                      => Refused("delete_investment"))
          /\ (response'.op = "get_payment_schedule"
                 /\ NotOwned(current_user, id)) =>
                 \A f \in StatusFilters :
                     get_payment_schedule(current_user, id, f)
                         => Refused("get_payment_schedule")
          /\ response'.op = "update_payment" =>
                 \A pid \in PaymentIds, u \in AccessPaymentUpdates :
                     (/\ PaymentScheduleUpdate(u) = "ok"
                      /\ \/ NotOwned(current_user, id)
                         \/ ~\E p \in payment_schedules :
                                p.id = pid /\ p.investment_id = id
                      /\ update_payment(current_user, id, pid, u))
                     => Refused("update_payment") ]_vars

\* C16 witness: each of the two users owns an investment with events, so that
\* each can name the other's investment and payment ids, and a request for a
\* payment schedule has been refused.
C16_Witness ==
    /\ response = Reply("get_payment_schedule", "NotFound", << >>, << >>)
    /\ \A current_user \in Users :
           \E i \in investments :
               i.user_id = current_user /\ EventsOf(i.id) # {}

\* C17: a step of delete_investment that succeeds removes the investment and
\* every payment event that refers to it, and leaves every other investment
\* and the events of every other investment unchanged.
C17_DeleteCascades ==
    [][ (response'.op = "delete_investment" /\ response'.status = "ok") =>
          LET id == response'.body[1]
          IN  /\ \A p \in payment_schedules' : p.investment_id # id
              /\ \A i \in investments' : i.id # id
              /\ investments' = {i \in investments : i.id # id}
              /\ payment_schedules'
                   = {p \in payment_schedules : p.investment_id # id} ]_vars

\* C17 witness: an investment has been deleted, none of its events is left
\* (event ids are missing from the table), and another investment keeps its
\* events.
C17_Witness ==
    /\ response.op = "delete_investment"
    /\ response.status = "ok"
    /\ EventsOf(response.body[1]) = {}
    /\ Cardinality(payment_schedules) < next_payment_id - 1
    /\ \E i \in investments : EventsOf(i.id) # {}

----------------------------------------------------------------------------
(* Rounding *)

\* fine/FinePerCent rounded to a whole number of cents, ties to the even cent
RoundHalfEven(fine) ==
    LET q == fine \div FinePerCent
        r == fine % FinePerCent
    IN  IF 2 * r < FinePerCent THEN q
        ELSE IF 2 * r > FinePerCent THEN q + 1
        ELSE IF q % 2 = 0 THEN q ELSE q + 1

\* C18: the persisted amount of a coupon event of a note is face_value *
\* annual_coupon_rate / 2 rounded half-even to the cent, and the persisted
\* amount of its final payment is that rounded coupon amount plus the face
\* value.
C18_RoundHalfEvenOnce ==
    \A i \in Notes : \A p \in EventsOf(i.id) :
        ~IsNone(i.annual_coupon_rate) =>
            LET coupon == RoundHalfEven(i.face_value * Get(i.annual_coupon_rate))
            IN  /\ p.payment_type = "coupon" => p.payment_amount = coupon
                /\ p.payment_type = "final_payment" =>
                       p.payment_amount = coupon + i.face_value

----------------------------------------------------------------------------
(* Whole half-year terms and the purchase date *)

\* The date n calendar months after dt, the day of the month clamped to the
\* last day of the target month
MonthsAfter(dt, n) ==
    LET k == MonthIndex(dt) + n
        y == k \div 12
        m == (k % 12) + 1
    IN  MkDate(y, m, IF DayOf(dt) <= DaysInMonth(y, m)
                     THEN DayOf(dt) ELSE DaysInMonth(y, m))

\* C19: a note whose maturity date is its cadence anchor plus 6*k calendar
\* months (k >= 1, the day of the month clamped to the target month) has
\* exactly k events: k-1 coupons and, last, a final_payment on the maturity
\* date.
C19_WholeHalfYears ==
    \A i \in Notes : \A k \in 1..4 :
        i.maturity_date = MonthsAfter(CadenceAnchor(i), 6 * k) =>
            /\ Cardinality(EventsOf(i.id)) = k
            /\ \E p \in EventsOf(i.id) :
                   /\ p.payment_type = "final_payment"
                   /\ p.payment_date = i.maturity_date
                   /\ \A q \in EventsOf(i.id) \ {p} :
                          /\ q.payment_type = "coupon"
                          /\ q.payment_date < p.payment_date
                          /\ q.id < p.id

\* C20: every payment event of an investment is scheduled strictly after the
\* purchase date of the investment and on or before its maturity date.
C20_EventsAfterPurchase ==
    \A i \in investments : \A p \in EventsOf(i.id) :
        /\ i.purchase_date < p.payment_date
        /\ p.payment_date <= i.maturity_date

----------------------------------------------------------------------------
(* Revoked sessions *)

\* C21: a request that presents an access token to an endpoint guarded by
\* get_current_user is accepted only while the session of that token is
\* persisted: once logout_user has revoked the session, or logout_all_sessions
\* or reset_password all sessions of the user, the token is rejected.
C21_RevokedTokenRejected ==
    (response.op = "get_current_user_info" /\ response.status = "ok") =>
        \E s \in user_sessions : s.session_token = response.args[1]

====
